---- MODULE Spec2Model ----
(***************************************************************************)
(* A model of packages/plugin-pnp/sources/PnpmLinker.ts: the pnpm-style    *)
(* installer.  The installer registers a location for every package        *)
(* (installPackage), populates the shared store in background tasks        *)
(* (pendingCopies) and reconciles every dependent's node_modules directory *)
(* (attachInternalDependencies).  The filesystem is a partial map from     *)
(* absolute paths (sequences of segments) to nodes; every await of the     *)
(* source on a filesystem operation or on the population barrier is one    *)
(* step of the model, so that calls interleave where the source lets them. *)
(***************************************************************************)
EXTENDS Naturals, Sequences, FiniteSets, TLC

\* ------------------------------------------------------------------ bounds

\* calls made on one installer and on its linker
MaxCalls == 3
\* installers made over the same disk (makeInstaller), one after the other
MaxRuns == 2
\* declared dependencies of one attachInternalDependencies call, where
\* calls interleave with installPackage and the population tasks
MaxDeps == 1

\* ------------------------------------------------------------ the universe

NULL == "undefined"

\* Locators, named by their locatorHash.  "vw" and "vh" are virtual.
Locators == {"w", "vw", "h", "vh"}

\* Descriptor idents: [scope, name]; scope "" is an unscoped ident.
Idents == {[scope |-> "", name |-> "a"],
           [scope |-> "s", name |-> "b"],
           [scope |-> "s", name |-> "c"]}

\* Directory entry names the source tells apart by their first character.
DotNames == {".store", ".bin"}
AtNames == {"@s"}

NodeModules == "node_modules"
StoreName == ".store"

\* opts.project.cwd
cwd == <<"p">>

\* structUtils.isVirtualLocator
isVirtualLocator(l) == l \in {"vw", "vh"}

\* structUtils.devirtualizeLocator
devirtualizeLocator(l) ==
  CASE l = "vw" -> "w"
    [] l = "vh" -> "h"
    [] OTHER -> l

\* project.tryWorkspaceByLocator(locator) !== null: a virtual locator is
\* looked up by its devirtualized identity.
tryWorkspaceByLocator(l) == devirtualizeLocator(l) = "w"

\* pkg.linkType
LinkTypeOf(l) == IF devirtualizeLocator(l) = "w" THEN "SOFT" ELSE "HARD"

\* structUtils.slugifyLocator: a deterministic name, one per locator.
slugifyLocator(l) ==
  CASE l = "h" -> "h-slug"
    [] l = "vh" -> "vh-slug"
    [] l = "w" -> "w-slug"
    [] OTHER -> "vw-slug"

\* structUtils.stringifyIdent, as the path segments of "@scope/name" or "name".
ScopeSegment(scope) == IF scope = "s" THEN "@s" ELSE "@"
stringifyIdent(ident) ==
  IF ident.scope = "" THEN <<ident.name>> ELSE <<ScopeSegment(ident.scope), ident.name>>

\* -------------------------------------------------------------------- ppath

IsPrefix(p, q) == Len(p) <= Len(q) /\ SubSeq(q, 1, Len(p)) = p

\* ppath.join
join(p, q) == p \o q

\* ppath.dirname
dirname(p) == IF Len(p) = 0 THEN p ELSE SubSeq(p, 1, Len(p) - 1)

\* ppath.resolve(root, prefix) of an absolute root and a relative prefix
RECURSIVE Normalize(_, _)
Normalize(base, rel) ==
  IF rel = <<>> THEN base
  ELSE IF Head(rel) = ".." THEN Normalize(dirname(base), Tail(rel))
  ELSE Normalize(Append(base, Head(rel)), Tail(rel))

resolve(root, prefix) == Normalize(root, prefix)

\* the length of the longest common prefix of two paths
RECURSIVE CommonLen(_, _)
CommonLen(p, q) ==
  IF p = <<>> \/ q = <<>> \/ Head(p) # Head(q) THEN 0
  ELSE 1 + CommonLen(Tail(p), Tail(q))

\* ppath.relative(from, to): one ".." per segment of from below the common
\* prefix, then the rest of to.
relative(from, to) ==
  LET c == CommonLen(from, to)
  IN [i \in 1..(Len(from) - c) |-> ".."] \o SubSeq(to, c + 1, Len(to))

\* ---------------------------------------------------------------------- xfs
\* A filesystem is a function from the paths that exist to nodes.

DirNode == [kind |-> "dir", data |-> <<>>]
FileNode(d) == [kind |-> "file", data |-> d]
LinkNode(t) == [kind |-> "link", data |-> t]

Exists(f, p) == p \in DOMAIN f
IsDir(f, p) == Exists(f, p) /\ f[p].kind = "dir"
IsLink(f, p) == Exists(f, p) /\ f[p].kind = "link"

Prefixes(p) == {SubSeq(p, 1, n) : n \in 1..Len(p)}

\* xfs.mkdirpPromise / xfs.mkdirPromise(p, {recursive: true}) succeed when no
\* segment of the path is something else than a directory
MkdirpOk(f, p) == \A q \in Prefixes(p) : Exists(f, q) => IsDir(f, q)
Mkdirp(f, p) ==
  [q \in DOMAIN f \cup Prefixes(p) |-> IF q \in DOMAIN f THEN f[q] ELSE DirNode]

\* xfs.readdirPromise(p, {withFileTypes: true}): the names in p
Children(f, p) == {q \in DOMAIN f : Len(q) = Len(p) + 1 /\ IsPrefix(p, q)}

\* xfs.removePromise: removes the path and all below it; no error if absent
Remove(f, p) == [q \in {r \in DOMAIN f : ~IsPrefix(p, r)} |-> f[q]]

\* xfs.symlinkPromise(target, p): fails if p exists or its directory does not
SymlinkOk(f, p) == ~Exists(f, p) /\ IsDir(f, dirname(p))
Symlink(f, target, p) ==
  [q \in DOMAIN f \cup {p} |-> IF q = p THEN LinkNode(target) ELSE f[q]]

\* xfs.copyPromise(dest, source, {baseFs, overwrite}): every file of the
\* package is written below dest; a file that exists is replaced only when
\* overwrite is set.
Copy(f, dest, files, overwrite) ==
  LET targets == {join(dest, <<n>>) : n \in DOMAIN files}
  IN [q \in DOMAIN f \cup targets |->
        IF q \in targets /\ (overwrite \/ q \notin DOMAIN f)
        THEN FileNode(files[q[Len(q)]])
        ELSE f[q]]

\* ------------------------------------------------------------------- inputs

\* fetchResult.packageFs of a HARD package: the files of the archive below
\* fetchResult.prefixPath.  Two archives, so that a second copy into a slot
\* can bring other content than the first.
Contents == {"c1", "c2"}
FilesOf(c) ==
  IF c = "c1" THEN ("package.json" :> "c1")
  ELSE ("package.json" :> "c2") @@ ("index.js" :> "c2")

\* fetchResult of a SOFT package: packageFs.getRealPath() is the filesystem
\* root and prefixPath the workspace's directory.
RealPath == <<>>
SoftPrefixes == {<<"p">>, <<"p", "pk">>}

\* Every fetchResult a package may be installed with
FetchResults(pkg) ==
  IF LinkTypeOf(pkg) = "SOFT"
  THEN {[packageFs |-> "disk", prefixPath |-> p] : p \in SoftPrefixes}
  ELSE {[packageFs |-> c, prefixPath |-> <<>>] : c \in Contents}

\* The fetchResult of each package in one resolved project: the workspace
\* is the project's root, and a virtual package is fetched as the package
\* it wraps.
ProjectFetch(pkg) ==
  IF LinkTypeOf(pkg) = "SOFT"
  THEN [packageFs |-> "disk", prefixPath |-> cwd]
  ELSE [packageFs |-> "c1", prefixPath |-> <<>>]

\* The two slots of attachInternalDependencies calls
CallIds == {1, 2}

\* The locators a descriptor ident may resolve to in the graphs explored.
ResolutionsOf(ident) ==
  CASE ident.name = "a" -> {"h", "vh"}
    [] ident.name = "b" -> {"w", "vw"}
    [] OTHER -> {"h"}

IdentOrder(ident) ==
  CASE ident.name = "a" -> 1
    [] ident.name = "b" -> 2
    [] OTHER -> 3

\* dependencies: Array<[Descriptor, Locator]>, one pair per declared ident,
\* in the order of the idents.
DepListsUpTo(n) ==
  {d \in UNION {[1..k -> [ident : Idents, locator : Locators]] : k \in 0..n} :
     /\ \A i \in 1..Len(d) : d[i].locator \in ResolutionsOf(d[i].ident)
     /\ \A i, j \in 1..Len(d) : i < j => IdentOrder(d[i].ident) < IdentOrder(d[j].ident)}

DepLists == DepListsUpTo(MaxDeps)

\* -------------------------------------------------------------------- state

VARIABLES
  fs,             \* the disk
  locations,      \* PnpmInstaller.locations: locatorHash -> path or NULL
  pendingCopies,  \* PnpmInstaller.pendingCopies: the population tasks
  calls,          \* the attachInternalDependencies calls of this installer
  ncalls,         \* calls made on this installer
  run,            \* installers made so far
  result          \* what the last call that returns a value has returned

vars == <<ncalls, run, result, fs, pendingCopies, calls, locations>>

\* What a call has asked of the filesystem and of the locations table
NoOps == [mkdirp |-> 0, readdir |-> 0, readlink |-> 0, lookup |-> 0]

\* A call: where it stands (pc), its arguments, the number of tasks it
\* awaits, its locals (nmPath, extraneous, i), how it ended (error,
\* skipped), and a record of what it met and did: whether a task had failed
\* when it was made, the directory as it found it (before), and the paths
\* it removed and the links it created.
IdleCall == [pc |-> "idle", locator |-> NULL, deps |-> <<>>, waitFor |-> 0,
             nmPath |-> <<>>, extraneous |-> <<>>, i |-> 0, error |-> NULL,
             skipped |-> FALSE, failedBefore |-> FALSE, ops |-> NoOps,
             before |-> <<>>, removed |-> {}, linked |-> {}]

\* What a call has returned or thrown: the operation, the kind of value
\* (undefined, null, an object, an error), the fields of the object
\* installPackage returns and the message of the error
ResultOf(op, kind) ==
  [op |-> op, kind |-> kind, packageLocation |-> <<>>, buildDirective |-> NULL,
   message |-> ""]

\* No call has returned a value yet
NoResult == ResultOf("none", "undefined")

\* lines 57-60 and 77-80: {packageLocation: pkgPath, buildDirective: null}
InstallResult(pkgPath) ==
  [ResultOf("installPackage", "object") EXCEPT !.packageLocation = pkgPath,
                                               !.buildDirective = "null"]

\* throw new Error(message)
Thrown(op, message) == [ResultOf(op, "error") EXCEPT !.message = message]

\* new PnpmInstaller(opts), lines 24-29
NewInstaller ==
  /\ locations = [l \in Locators |-> NULL]
  /\ pendingCopies = <<>>
  /\ calls = [c \in CallIds |-> IdleCall]
  /\ ncalls = 0
  /\ result = NoResult

\* The project directory exists and nothing has been installed in it.
EmptyDisk == (cwd :> DirNode)

Init ==
  /\ fs = EmptyDisk
  /\ NewInstaller
  /\ run = 1

\* ----------------------------------------------------------- installPackage

\* ppath.join(this.opts.project.cwd, Filename.nodeModules, `.store`, pkgKey)
StorePath(pkg) == join(cwd, <<NodeModules, StoreName, slugifyLocator(pkg)>>)

\* An installPackageSoft that gives the package a slot in the store and
\* schedules its population, for comparison
installPackageSoftStored(pkg, fetchResult) ==
  LET pkgPath == StorePath(pkg)
  IN
  /\ locations' = [locations EXCEPT ![pkg] = pkgPath]
  /\ pendingCopies' = Append(pendingCopies,
       [pkgPath |-> pkgPath, content |-> "c1", st |-> "scheduled"])
  /\ result' = InstallResult(pkgPath)
  /\ UNCHANGED fs

\* installPackageSoft, lines 53-61
installPackageSoft(pkg, fetchResult) ==
  LET pkgPath == resolve(RealPath, fetchResult.prefixPath)
  IN
  /\ locations' = [locations EXCEPT ![pkg] = pkgPath]
  /\ result' = InstallResult(pkgPath)
  /\ UNCHANGED <<fs, pendingCopies>>

\* An installPackageHard that populates the slot before it returns, for
\* comparison
installPackageHardAwaited(pkg, fetchResult) ==
  LET pkgPath == StorePath(pkg)
  IN
  /\ MkdirpOk(fs, pkgPath)
  /\ locations' = [locations EXCEPT ![pkg] = pkgPath]
  /\ pendingCopies' = Append(pendingCopies,
       [pkgPath |-> pkgPath, content |-> fetchResult.packageFs, st |-> "done"])
  /\ result' = InstallResult(pkgPath)
  /\ fs' = Copy(Mkdirp(fs, pkgPath), pkgPath, FilesOf(fetchResult.packageFs), FALSE)

\* An installPackageHard that keeps no location but the one it registers,
\* for comparison
installPackageHardAlone(pkg, fetchResult) ==
  LET pkgPath == StorePath(pkg)
  IN
  /\ locations' = [l \in Locators |-> IF l = pkg THEN pkgPath ELSE NULL]
  /\ pendingCopies' = Append(pendingCopies,
       [pkgPath |-> pkgPath, content |-> fetchResult.packageFs,
        st |-> "scheduled"])
  /\ result' = InstallResult(pkgPath)
  /\ UNCHANGED fs

\* installPackageHard, lines 63-81: the location is registered at once and
\* the population task is only scheduled.
installPackageHard(pkg, fetchResult) ==
  LET pkgPath == StorePath(pkg)
  IN
  /\ locations' = [locations EXCEPT ![pkg] = pkgPath]
  /\ pendingCopies' = Append(pendingCopies,
       [pkgPath |-> pkgPath, content |-> fetchResult.packageFs,
        st |-> "scheduled"])
  /\ result' = InstallResult(pkgPath)
  /\ UNCHANGED fs

\* installPackage, lines 44-51
InstallPackage(pkg, fetchResult) ==
  /\ ncalls < MaxCalls
  /\ ncalls' = ncalls + 1
  /\ IF LinkTypeOf(pkg) = "SOFT"
     THEN installPackageSoft(pkg, fetchResult)
     ELSE installPackageHard(pkg, fetchResult)
  /\ UNCHANGED <<calls, run>>

\* The population task of installPackageHard, line 70:
\* await xfs.mkdirPromise(pkgPath, {recursive: true})
TaskMkdir(t) ==
  /\ pendingCopies[t].st = "scheduled"
  /\ MkdirpOk(fs, pendingCopies[t].pkgPath)
  /\ fs' = Mkdirp(fs, pendingCopies[t].pkgPath)
  /\ pendingCopies' = [pendingCopies EXCEPT ![t].st = "mkdir"]
  /\ UNCHANGED <<locations, calls, ncalls, run, result>>

\* A copy that replaces the files it finds, for comparison
CopyOverwriteSet == TRUE

\* The overwrite option of the copy, line 73
CopyOverwrite == FALSE

\* lines 71-74: await xfs.copyPromise(pkgPath, prefixPath, {baseFs, overwrite: false})
TaskCopy(t) ==
  /\ pendingCopies[t].st = "mkdir"
  /\ fs' = Copy(fs, pendingCopies[t].pkgPath, FilesOf(pendingCopies[t].content), CopyOverwrite)
  /\ pendingCopies' = [pendingCopies EXCEPT ![t].st = "done"]
  /\ UNCHANGED <<locations, calls, ncalls, run, result>>

\* lines 70-74: either await rejects with a filesystem error (a full disk,
\* an unreadable archive); the task's promise is then rejected.
TaskFail(t) ==
  /\ pendingCopies[t].st \in {"scheduled", "mkdir"}
  /\ pendingCopies' = [pendingCopies EXCEPT ![t].st = "failed"]
  /\ UNCHANGED <<fs, locations, calls, ncalls, run, result>>

\* ----------------------------------------------- attachInternalDependencies

\* The compatibility test with the workspace condition the other way round,
\* for comparison
isPnpmVirtualCompatibleSwapped(locator) ==
  ~isVirtualLocator(locator) \/ tryWorkspaceByLocator(locator)

\* isPnpmVirtualCompatible, lines 161-163
isPnpmVirtualCompatible(locator) ==
  ~isVirtualLocator(locator) \/ ~tryWorkspaceByLocator(locator)

\* Two other choices of the linked locator, for comparison: every virtual
\* package that is no workspace devirtualized, and no locator devirtualized
targetDependencySwapped(dependency) ==
  IF isVirtualLocator(dependency) /\ ~tryWorkspaceByLocator(dependency)
  THEN devirtualizeLocator(dependency)
  ELSE dependency

targetDependencyKept(dependency) == dependency

\* lines 117-119: the locator whose location a dependency is linked to
targetDependency(dependency) ==
  IF isPnpmVirtualCompatible(dependency) THEN dependency
  ELSE devirtualizeLocator(dependency)

\* A listing that takes no name for a dotfile, for comparison
StartsWithDotNever(name) == FALSE

\* entry.name.startsWith(`.`), line 99
StartsWithDot(name) == name \in DotNames

\* entry.name.startsWith(`@`), line 102
StartsWithAt(name) == name \in AtNames

Last(p) == p[Len(p)]

\* The key of a directory entry in the extraneous map: its path below nmPath
NameBelow(nmPath, p) == SubSeq(p, Len(nmPath) + 1, Len(p))

\* Two other listings, for comparison: one that leaves the scopes out and
\* one that keeps a scope as one entry
ListedUnscoped(f, nmPath) ==
  {e \in Children(f, nmPath) : ~StartsWithDot(Last(e)) /\ ~StartsWithAt(Last(e))}

ListedOpaque(f, nmPath) ==
  {e \in Children(f, nmPath) : ~StartsWithDot(Last(e))}

\* lines 98-109: the entries of nmPath that the listing keeps, scopes
\* expanded one level and dotfiles left out
Listed(f, nmPath) ==
  LET top == {e \in Children(f, nmPath) : ~StartsWithDot(Last(e))}
  IN {e \in top : ~StartsWithAt(Last(e))}
       \cup UNION {Children(f, e) : e \in {x \in top : StartsWithAt(Last(x))}}

\* line 103: readdir of a scope entry that is no directory rejects with
\* ENOTDIR, which line 111 rethrows
ListingOk(f, nmPath) ==
  \A e \in Children(f, nmPath) :
    (~StartsWithDot(Last(e)) /\ StartsWithAt(Last(e))) => IsDir(f, e)

Bump(ops, field) == [ops EXCEPT ![field] = @ + 1]

Settled(c) == calls[c].pc \in {"idle", "done", "failed"}

\* line 83: the call; line 84 takes pendingCopies as it is at this moment
\* and awaits the tasks in it.  The slot of a call that has returned is
\* used again.
AttachCall(c, locator, dependencies) ==
  /\ Settled(c)
  /\ ncalls < MaxCalls
  /\ ncalls' = ncalls + 1
  /\ calls' = [calls EXCEPT ![c] =
       [IdleCall EXCEPT !.pc = "barrier", !.locator = locator,
                        !.deps = dependencies,
                        !.waitFor = Len(pendingCopies),
                        !.failedBefore =
                          \E t \in 1..Len(pendingCopies) : pendingCopies[t].st = "failed"]]
  /\ UNCHANGED <<fs, locations, pendingCopies, run, result>>

\* Two other barriers, for comparison: one that does not wait for the tasks
\* that are still running, and one that resolves once every task has
\* settled, failed or not (Promise.allSettled)
BarrierNoWait(call) ==
  IF \E t \in 1..call.waitFor : pendingCopies[t].st = "failed" THEN "rejected"
  ELSE "resolved"

BarrierAllSettled(call) ==
  IF \A t \in 1..call.waitFor : pendingCopies[t].st \in {"done", "failed"} THEN "resolved"
  ELSE "pending"

\* line 84: Promise.all rejects as soon as one awaited task has failed and
\* resolves when all are done
BarrierOutcome(call) ==
  IF \E t \in 1..call.waitFor : pendingCopies[t].st = "failed" THEN "rejected"
  ELSE IF \A t \in 1..call.waitFor : pendingCopies[t].st = "done" THEN "resolved"
  ELSE "pending"

\* What is below a directory, by its path below it
Below(f, dir) ==
  [n \in {NameBelow(dir, q) : q \in {r \in DOMAIN f : IsPrefix(dir, r) /\ r # dir}}
     |-> f[join(dir, n)]]

\* One node_modules for every dependent, at the root of the project, for
\* comparison
nmPathAtRoot(pkgPath) == join(cwd, <<NodeModules>>)

\* line 93: the dependency directory of the package at pkgPath
nmPathOf(pkgPath) == join(pkgPath, <<NodeModules>>)

\* lines 84-94: the barrier, the skip of an incompatible dependent, the
\* lookup of the dependent's location and the creation of its node_modules
AttachBegin(c) ==
  LET call == calls[c]
      pkgPath == locations[call.locator]
      nmPath == nmPathOf(pkgPath)
  IN
  /\ call.pc = "barrier"
  /\ BarrierOutcome(call) # "pending"
  /\ IF BarrierOutcome(call) = "rejected"
     THEN /\ calls' = [calls EXCEPT ![c].pc = "failed", ![c].error = "fs"]
          /\ fs' = fs
     ELSE IF ~isPnpmVirtualCompatible(call.locator)
     THEN /\ calls' = [calls EXCEPT ![c].pc = "done", ![c].skipped = TRUE]
          /\ fs' = fs
     ELSE IF pkgPath = NULL
     THEN /\ calls' = [calls EXCEPT ![c].pc = "failed", ![c].error = "assert",
                                    ![c].ops = Bump(@, "lookup")]
          /\ fs' = fs
     ELSE IF ~MkdirpOk(fs, nmPath)
     THEN /\ calls' = [calls EXCEPT ![c].pc = "failed", ![c].error = "fs",
                                    ![c].ops = Bump(Bump(@, "lookup"), "mkdirp")]
          /\ fs' = fs
     ELSE /\ calls' = [calls EXCEPT ![c].pc = "list", ![c].nmPath = nmPath,
                                    ![c].before = Below(fs, nmPath),
                                    ![c].ops = Bump(Bump(@, "lookup"), "mkdirp")]
          /\ fs' = Mkdirp(fs, nmPath)
  /\ UNCHANGED <<locations, pendingCopies, ncalls, run, result>>

\* lines 96-114: the listing that fills the extraneous map.  A directory
\* that is absent (ENOENT) lists as empty.
AttachList(c) ==
  LET call == calls[c]
      found == IF IsDir(fs, call.nmPath) THEN Listed(fs, call.nmPath) ELSE {}
      names == {NameBelow(call.nmPath, e) : e \in found}
  IN
  /\ call.pc = "list"
  /\ IF Exists(fs, call.nmPath) /\ (~IsDir(fs, call.nmPath) \/ ~ListingOk(fs, call.nmPath))
     THEN calls' = [calls EXCEPT ![c].pc = "failed", ![c].error = "fs",
                                 ![c].ops = Bump(@, "readdir")]
     ELSE calls' = [calls EXCEPT
            ![c].pc = IF call.deps = <<>> THEN "cleanup" ELSE "deps",
            ![c].i = 1,
            ![c].extraneous = [n \in names |-> fs[join(call.nmPath, n)].kind],
            ![c].ops = Bump(@, "readdir")]
  /\ UNCHANGED <<fs, locations, pendingCopies, ncalls, run, result>>

\* A loop that replaces every existing entry, for comparison
AlreadyLinkedNever(dirent, current, depLinkPath) == FALSE

\* The test of line 134 on the Dirent alone being a directory, for comparison
AlreadyLinkedAsDirectory(dirent, current, depLinkPath) ==
  dirent = "dir" /\ current = depLinkPath

\* line 134: an existing entry is kept when its Dirent is a symbolic link
\* and the link reads as the desired relative target
AlreadyLinked(dirent, current, depLinkPath) ==
  dirent = "link" /\ current = depLinkPath

\* lines 116-143: one turn of the loop over the dependencies
AttachDep(c) ==
  LET call == calls[c]
      dep == call.deps[call.i]
      depSrcPath == locations[targetDependency(dep.locator)]
      name == stringifyIdent(dep.ident)
      depDstPath == join(call.nmPath, name)
      depLinkPath == relative(dirname(depDstPath), depSrcPath)
      existing == name \in DOMAIN call.extraneous
      rest == [n \in DOMAIN call.extraneous \ {name} |-> call.extraneous[n]]
      next == IF call.i = Len(call.deps) THEN "cleanup" ELSE "deps"
      looked == Bump(call.ops, "lookup")
      fail(f, ops, removed) ==
        /\ calls' = [calls EXCEPT ![c].pc = "failed", ![c].error = "fs",
                                  ![c].extraneous = rest, ![c].ops = ops,
                                  ![c].removed = removed]
        /\ fs' = f
      link(f, ops, removed) ==
        IF ~MkdirpOk(f, dirname(depDstPath))
        THEN fail(f, Bump(ops, "mkdirp"), removed)
        ELSE IF ~SymlinkOk(Mkdirp(f, dirname(depDstPath)), depDstPath)
        THEN fail(Mkdirp(f, dirname(depDstPath)), Bump(ops, "mkdirp"), removed)
        ELSE /\ calls' = [calls EXCEPT ![c].pc = next, ![c].i = @ + 1,
                                       ![c].extraneous = rest,
                                       ![c].ops = Bump(ops, "mkdirp"),
                                       ![c].removed = removed,
                                       ![c].linked = @ \cup {depDstPath}]
             /\ fs' = Symlink(Mkdirp(f, dirname(depDstPath)), depLinkPath, depDstPath)
  IN
  /\ call.pc = "deps"
  /\ IF depSrcPath = NULL
     THEN /\ calls' = [calls EXCEPT ![c].pc = "failed", ![c].error = "assert",
                                    ![c].ops = looked]
          /\ fs' = fs
     ELSE IF ~existing
     THEN link(fs, looked, call.removed)
     ELSE IF call.extraneous[name] = "link" /\ ~IsLink(fs, depDstPath)
     THEN fail(fs, Bump(looked, "readlink"), call.removed)
     ELSE IF AlreadyLinked(call.extraneous[name],
                           IF IsLink(fs, depDstPath) THEN fs[depDstPath].data ELSE <<>>,
                           depLinkPath)
     THEN /\ calls' = [calls EXCEPT ![c].pc = next, ![c].i = @ + 1,
                                    ![c].extraneous = rest,
                                    ![c].ops = Bump(looked, "readlink")]
          /\ fs' = fs
     ELSE link(Remove(fs, depDstPath),
               IF call.extraneous[name] = "link" THEN Bump(looked, "readlink") ELSE looked,
               call.removed \cup {depDstPath})
  /\ UNCHANGED <<locations, pendingCopies, ncalls, run, result>>

\* lines 145-147: what is left in the extraneous map is removed
RemoveAll(f, paths) ==
  [q \in {r \in DOMAIN f : \A p \in paths : ~IsPrefix(p, r)} |-> f[q]]

AttachCleanup(c) ==
  LET call == calls[c]
      paths == {join(call.nmPath, n) : n \in DOMAIN call.extraneous}
  IN
  /\ call.pc = "cleanup"
  /\ fs' = RemoveAll(fs, paths)
  /\ calls' = [calls EXCEPT ![c].pc = "done", ![c].extraneous = <<>>,
                            ![c].removed = @ \cup paths]
  /\ UNCHANGED <<locations, pendingCopies, ncalls, run, result>>

\* PnpmLinker.makeInstaller, lines 18-20: a later install over the same disk
\* starts with a new installer, once the previous one has come to rest.
MakeInstaller ==
  /\ run < MaxRuns
  /\ \A c \in CallIds : Settled(c)
  /\ \A t \in 1..Len(pendingCopies) : pendingCopies[t].st \in {"done", "failed"}
  /\ run' = run + 1
  /\ locations' = [l \in Locators |-> NULL]
  /\ pendingCopies' = <<>>
  /\ calls' = [c \in CallIds |-> IdleCall]
  /\ ncalls' = 0
  /\ result' = NoResult
  /\ UNCHANGED fs

\* ------------------------------------- the other operations of the linker

\* The nodeLinker setting of the project
NodeLinkers == {"pnpm", "node-modules"}

\* The lists of paths attachExternalDependents may be called with
DependentPaths == {<<>>, <<<<"q">>>>, <<<<"q">>, cwd>>}

\* The paths findPackageLocator may be asked about
Locations == {cwd, <<"q">>} \cup {StorePath(l) : l \in Locators}

\* What findPackageLocation would return if it answered from the table of
\* locations, for comparison
findPackageLocationFromTable(locator) ==
  IF locations[locator] = NULL
  THEN ResultOf("findPackageLocation", "null")
  ELSE [ResultOf("findPackageLocation", "object") EXCEPT
          !.packageLocation = locations[locator]]

\* PnpmLinker.findPackageLocation, lines 10-12: return null
findPackageLocation(locator) == ResultOf("findPackageLocation", "null")

\* PnpmLinker.findPackageLocator, lines 14-16: return null
findPackageLocator(location) == ResultOf("findPackageLocator", "null")

FindPackageLocation(locator) ==
  /\ ncalls < MaxCalls
  /\ ncalls' = ncalls + 1
  /\ result' = findPackageLocation(locator)
  /\ UNCHANGED <<fs, locations, pendingCopies, calls, run>>

FindPackageLocator(location) ==
  /\ ncalls < MaxCalls
  /\ ncalls' = ncalls + 1
  /\ result' = findPackageLocator(location)
  /\ UNCHANGED <<fs, locations, pendingCopies, calls, run>>

\* The message of line 151
NotImplemented == "External dependencies haven't been implemented for the pnpm linker"

\* An attachExternalDependents that returns without doing anything, for
\* comparison
attachExternalDependentsSilent(locator, dependentPaths) ==
  ResultOf("attachExternalDependents", "undefined")

\* PnpmInstaller.attachExternalDependents, lines 150-152: throws
attachExternalDependents(locator, dependentPaths) ==
  Thrown("attachExternalDependents", NotImplemented)

AttachExternalDependents(locator, dependentPaths) ==
  /\ ncalls < MaxCalls
  /\ ncalls' = ncalls + 1
  /\ result' = attachExternalDependents(locator, dependentPaths)
  /\ UNCHANGED <<fs, locations, pendingCopies, calls, run>>

\* PnpmInstaller.finalizeInstall, lines 154-159: undefined when the project
\* is not linked by pnpm, null when it is
finalizeInstall(nodeLinker) ==
  IF nodeLinker # "pnpm"
  THEN ResultOf("finalizeInstall", "undefined")
  ELSE ResultOf("finalizeInstall", "null")

FinalizeInstall(nodeLinker) ==
  /\ ncalls < MaxCalls
  /\ ncalls' = ncalls + 1
  /\ result' = finalizeInstall(nodeLinker)
  /\ UNCHANGED <<fs, locations, pendingCopies, calls, run>>

\* ------------------------------------------------------------ specification

\* One installer over an empty project: the packages are installed as the
\* project resolves them, their population tasks run in the background, and
\* attachInternalDependencies is called, one call at a time, at any moment.
Next ==
  \/ \E pkg \in Locators : InstallPackage(pkg, ProjectFetch(pkg))
  \/ \E t \in 1..Len(pendingCopies) : TaskMkdir(t)
  \/ \E t \in 1..Len(pendingCopies) : TaskCopy(t)
  \/ \E t \in 1..Len(pendingCopies) : TaskFail(t)
  \/ \E locator \in Locators, dependencies \in DepLists :
       AttachCall(1, locator, dependencies)
  \/ AttachBegin(1)
  \/ AttachList(1)
  \/ AttachDep(1)
  \/ AttachCleanup(1)

Spec == Init /\ [][Next]_vars

\* The store alone: packages are installed with any fetchResult, by
\* installers that follow one another over the same disk.
NextStore ==
  \/ \E pkg \in Locators :
       \E fetchResult \in FetchResults(pkg) : InstallPackage(pkg, fetchResult)
  \/ \E t \in 1..Len(pendingCopies) : TaskMkdir(t)
  \/ \E t \in 1..Len(pendingCopies) : TaskCopy(t)
  \/ \E t \in 1..Len(pendingCopies) : TaskFail(t)
  \/ MakeInstaller

SpecStore == Init /\ [][NextStore]_vars

\* Every operation of the linker and of its installer, called in any order
NextLinker ==
  \/ Next
  \/ \E locator \in Locators : FindPackageLocation(locator)
  \/ \E location \in Locations : FindPackageLocator(location)
  \/ \E locator \in Locators, dependentPaths \in DependentPaths :
       AttachExternalDependents(locator, dependentPaths)
  \/ \E nodeLinker \in NodeLinkers : FinalizeInstall(nodeLinker)

SpecLinker == Init /\ [][NextLinker]_vars

\* ---------------------------------------------- reconciliation on its own
\* The installer after every package of the project has been installed and
\* populated, over a disk on which one dependent's node_modules holds what
\* earlier installs or other tools have left there.

\* The location installPackage registers for a package of the project
RegisteredPath(pkg) ==
  IF LinkTypeOf(pkg) = "SOFT"
  THEN resolve(RealPath, ProjectFetch(pkg).prefixPath)
  ELSE StorePath(pkg)

HardPackages == <<"h", "vh">>

RECURSIVE Populated(_, _)
Populated(f, n) ==
  IF n = 0 THEN f
  ELSE Populated(Copy(Mkdirp(f, StorePath(HardPackages[n])), StorePath(HardPackages[n]),
                      FilesOf(ProjectFetch(HardPackages[n]).packageFs), CopyOverwrite),
                 n - 1)

\* A link left where a package that is no longer installed used to be
StaleTarget == <<"..", "gone">>

PriorChoices ==
  [a : {"absent", "h", "vh", "stale", "file", "dir"},
   scope : {"absent", "file", "dir"},
   b : {"absent", "w", "stale", "file"},
   c : {"absent", "h", "dir"},
   dot : BOOLEAN]

\* The entries a choice puts below nmPath
PriorEntries(nmPath, ch) ==
  LET pa == join(nmPath, <<"a">>)
      ps == join(nmPath, <<"@s">>)
      pb == join(nmPath, <<"@s", "b">>)
      pc == join(nmPath, <<"@s", "c">>)
      pd == join(nmPath, <<".bin">>)
      paths == (IF ch.a # "absent" THEN {pa} ELSE {})
          \cup (IF ch.scope # "absent" THEN {ps} ELSE {})
          \cup (IF ch.scope = "dir" /\ ch.b # "absent" THEN {pb} ELSE {})
          \cup (IF ch.scope = "dir" /\ ch.c # "absent" THEN {pc} ELSE {})
          \cup (IF ch.dot THEN {pd} ELSE {})
      node(q, how) ==
        CASE how \in Locators -> LinkNode(relative(dirname(q), RegisteredPath(how)))
          [] how = "stale" -> LinkNode(StaleTarget)
          [] how = "file" -> FileNode("x")
          [] OTHER -> DirNode
  IN [q \in paths |->
        CASE q = pa -> node(q, ch.a)
          [] q = ps -> node(q, ch.scope)
          [] q = pb -> node(q, ch.b)
          [] q = pc -> node(q, ch.c)
          [] OTHER -> DirNode]

\* The dependents whose node_modules may hold earlier content
PriorDependents == {"w", "h", "vh"}

PriorDisks ==
  LET base == Populated(EmptyDisk, Len(HardPackages))
  IN {base} \cup
     {PriorEntries(join(RegisteredPath(d), <<NodeModules>>), ch)
        @@ Mkdirp(base, join(RegisteredPath(d), <<NodeModules>>)) :
        d \in PriorDependents, ch \in {x \in PriorChoices :
                 x.scope # "dir" => (x.b = "absent" /\ x.c = "absent")}}

InitReconcile ==
  /\ fs \in PriorDisks
  /\ locations = [l \in Locators |-> RegisteredPath(l)]
  /\ pendingCopies = [n \in 1..Len(HardPackages) |->
       [pkgPath |-> StorePath(HardPackages[n]),
        content |-> ProjectFetch(HardPackages[n]).packageFs, st |-> "done"]]
  /\ calls = [c \in CallIds |-> IdleCall]
  /\ ncalls = 0
  /\ run = 1
  /\ result = NoResult

\* Every list of dependencies over the idents
AllDepLists == DepListsUpTo(Cardinality(Idents))

\* One call of attachInternalDependencies, and then the same call again
NextReconcile ==
  \/ \E locator \in Locators, dependencies \in AllDepLists :
       /\ calls[1].pc = "idle"
       /\ AttachCall(1, locator, dependencies)
  \/ /\ calls[1].pc = "done"
     /\ calls[2].pc = "idle"
     /\ AttachCall(2, calls[1].locator, calls[1].deps)
  \/ \E c \in CallIds : AttachBegin(c)
  \/ \E c \in CallIds : AttachList(c)
  \/ \E c \in CallIds : AttachDep(c)
  \/ \E c \in CallIds : AttachCleanup(c)

SpecReconcile == InitReconcile /\ [][NextReconcile]_vars

\* ------------------------------------------------- an install and its retry
\* One project installed the way Project.linkEverything drives an installer:
\* installPackage for every package, then attachInternalDependencies for the
\* dependent.  Any await of a run but the last may reject, which aborts the
\* run; the install is then made again, by a new installer over the disk the
\* aborted run has left.

\* The project: the workspace w at the root depends on the HARD package h as
\* "a" and on a virtual instance of itself as "@s/b".
RetryPackages == {"w", "h"}
RetryDependent == "w"
RetryDeps ==
  <<[ident |-> [scope |-> "", name |-> "a"], locator |-> "h"],
    [ident |-> [scope |-> "s", name |-> "b"], locator |-> "vw"]>>

\* What an interrupted write leaves of a file
Truncated == FileNode("truncated")

\* xfs.copyPromise rejecting part-way: the files of written have been
\* copied, the file cut (if any) has been begun and not finished, and as in
\* Copy a file that was there has not been touched.
PartialCopy(f, dest, files, written, cut, overwrite) ==
  LET targets == {join(dest, <<n>>) : n \in written \cup cut}
  IN [q \in DOMAIN f \cup targets |->
        IF q \in targets /\ (overwrite \/ q \notin DOMAIN f)
        THEN IF q[Len(q)] \in cut THEN Truncated ELSE FileNode(files[q[Len(q)]])
        ELSE f[q]]

\* lines 71-74: the copy rejects after it has written part of the package
TaskCopyAbort(t) ==
  LET files == FilesOf(pendingCopies[t].content)
  IN
  /\ pendingCopies[t].st = "mkdir"
  /\ \E written \in SUBSET DOMAIN files :
       \E cut \in {c \in SUBSET (DOMAIN files \ written) : Cardinality(c) <= 1} :
         fs' = PartialCopy(fs, pendingCopies[t].pkgPath, files, written, cut, CopyOverwrite)
  /\ pendingCopies' = [pendingCopies EXCEPT ![t].st = "failed"]
  /\ UNCHANGED <<locations, calls, ncalls, run, result>>

\* lines 98-146: an await of the call rejects with a filesystem error that
\* the state of the disk does not explain (EIO, EACCES, an interrupt): at
\* the listing, in a turn of the loop before anything is written, after the
\* removal of line 137 or after the mkdirp of line 141, or in the cleanup
\* after some of the removals.
AttachAbort(c) ==
  LET call == calls[c]
      depDstPath == join(call.nmPath, stringifyIdent(call.deps[call.i].ident))
      failed(removed) ==
        calls' = [calls EXCEPT ![c].pc = "failed", ![c].error = "fs",
                               ![c].removed = @ \cup removed]
  IN
  /\ call.pc \in {"list", "deps", "cleanup"}
  /\ \/ /\ fs' = fs
        /\ failed({})
     \/ /\ call.pc = "deps"
        /\ locations[targetDependency(call.deps[call.i].locator)] # NULL
        /\ \/ /\ Exists(fs, depDstPath)
              /\ fs' = Remove(fs, depDstPath)
           \/ /\ MkdirpOk(Remove(fs, depDstPath), dirname(depDstPath))
              /\ fs' = Mkdirp(Remove(fs, depDstPath), dirname(depDstPath))
        /\ fs' # fs
        /\ failed({depDstPath} \cap DOMAIN fs)
     \/ /\ call.pc = "cleanup"
        /\ \E some \in SUBSET DOMAIN call.extraneous :
             /\ some # {}
             /\ fs' = RemoveAll(fs, {join(call.nmPath, n) : n \in some})
             /\ failed({join(call.nmPath, n) : n \in some})
  /\ UNCHANGED <<locations, pendingCopies, ncalls, run, result>>

\* The run has been aborted: a population task or the call has failed
Aborted ==
  \/ \E t \in 1..Len(pendingCopies) : pendingCopies[t].st = "failed"
  \/ \E c \in CallIds : calls[c].pc = "failed"

\* The install is made again after an aborted run has come to rest
RetryInstaller ==
  /\ Aborted
  /\ MakeInstaller

\* What earlier installs may have left in the workspace's node_modules
RetryDisks ==
  LET nm == join(cwd, <<NodeModules>>)
  IN {EmptyDisk,
      (join(nm, <<"a">>) :> LinkNode(StaleTarget)) @@ Mkdirp(EmptyDisk, nm),
      (join(nm, <<"a">>) :> FileNode("x")) @@ (join(nm, <<"@s", "c">>) :> LinkNode(StaleTarget))
        @@ Mkdirp(EmptyDisk, join(nm, <<"@s">>))}

InitRetry ==
  /\ fs \in RetryDisks
  /\ NewInstaller
  /\ run = 1

NextRetry ==
  \/ \E pkg \in RetryPackages :
       /\ locations[pkg] = NULL
       /\ InstallPackage(pkg, ProjectFetch(pkg))
  \/ \E t \in 1..Len(pendingCopies) : TaskMkdir(t)
  \/ \E t \in 1..Len(pendingCopies) : TaskCopy(t)
  \/ \E t \in 1..Len(pendingCopies) : run < MaxRuns /\ TaskFail(t)
  \/ \E t \in 1..Len(pendingCopies) : run < MaxRuns /\ TaskCopyAbort(t)
  \/ /\ \A pkg \in RetryPackages : locations[pkg] # NULL
     /\ calls[1].pc = "idle"
     /\ AttachCall(1, RetryDependent, RetryDeps)
  \/ AttachBegin(1)
  \/ AttachList(1)
  \/ AttachDep(1)
  \/ AttachCleanup(1)
  \/ run < MaxRuns /\ AttachAbort(1)
  \/ RetryInstaller

SpecRetry == InitRetry /\ [][NextRetry]_vars

\* ------------------------------------------- two calls at the same time
\* Two calls of attachInternalDependencies for different dependents whose
\* steps interleave, once every package is installed and populated.

\* Two SOFT packages that are no workspaces: the same directory outside the
\* project, depended on as `portal:` by two workspaces, which gives two
\* locators (`portal:../x::locator=...`, one per workspace that binds it).
PortalLocators == {"x1", "x2"}

\* installPackageSoft, line 54, for a portal: fetchResult.prefixPath is the
\* directory the portal leads to
PortalPath == resolve(RealPath, <<"x">>)

\* The dependents the two calls are made for
ConcurrentDependents == {"w", "h"} \cup PortalLocators

\* The disk: the store populated, the portal's directory, and in the
\* node_modules of one dependent possibly an entry "a" left by an earlier
\* install, a link to h or a stale link
ConcurrentDisks ==
  LET base == (PortalPath :> DirNode) @@ Populated(EmptyDisk, Len(HardPackages))
      nm(path) == join(path, <<NodeModules>>)
      a(path) == join(nm(path), <<"a">>)
  IN {base} \cup
     {(a(path) :> LinkNode(t)) @@ Mkdirp(base, nm(path)) :
        path \in {cwd, PortalPath},
        t \in {StaleTarget} \cup {relative(nm(q), StorePath("h")) : q \in {cwd, PortalPath}}}

InitConcurrent ==
  /\ fs \in ConcurrentDisks
  /\ locations = [l \in Locators \cup PortalLocators |->
                    IF l \in PortalLocators THEN PortalPath ELSE RegisteredPath(l)]
  /\ pendingCopies = [n \in 1..Len(HardPackages) |->
       [pkgPath |-> StorePath(HardPackages[n]),
        content |-> ProjectFetch(HardPackages[n]).packageFs, st |-> "done"]]
  /\ calls = [c \in CallIds |-> IdleCall]
  /\ ncalls = 0
  /\ run = 1
  /\ result = NoResult

\* Each call is made once, for a dependent the other is not made for
NextConcurrent ==
  \/ \E c \in CallIds, locator \in ConcurrentDependents, dependencies \in DepLists :
       /\ calls[c].pc = "idle"
       /\ \A d \in CallIds \ {c} : calls[d].locator # locator
       /\ AttachCall(c, locator, dependencies)
  \/ \E c \in CallIds : AttachBegin(c)
  \/ \E c \in CallIds : AttachList(c)
  \/ \E c \in CallIds : AttachDep(c)
  \/ \E c \in CallIds : AttachCleanup(c)

SpecConcurrent == InitConcurrent /\ [][NextConcurrent]_vars

\* ------------------------------------------------------------------ claims

\* The names a list of dependencies declares
DeclaredNames(deps) == {stringifyIdent(deps[k].ident) : k \in 1..Len(deps)}

\* A call that has returned successfully after reconciling its dependent
Reconciled(c) == calls[c].pc = "done" /\ ~calls[c].skipped

\* Where a symlink leads: its relative target, resolved from its directory
Resolves(f, p) == Normalize(dirname(p), f[p].data)

\* The locator whose location a dependency is linked to, as the source has
\* it: a virtual instance of a workspace stands for the workspace.
ResolvedTarget(l) ==
  IF isVirtualLocator(l) /\ tryWorkspaceByLocator(l) THEN devirtualizeLocator(l) ELSE l

\* An entry of a dependency directory as the idents name them: a name at
\* the top that is neither a dotfile nor a scope, or a name in a scope
IsEntryName(n) ==
  \/ Len(n) = 1 /\ ~StartsWithDot(n[1]) /\ ~StartsWithAt(n[1])
  \/ Len(n) = 2 /\ StartsWithAt(n[1])

\* C1: once attachInternalDependencies has returned for a reconciled
\* dependent, its dependency directory holds, dotfiles aside, exactly one
\* entry per declared ident (a scoped ident in its scope directory), each a
\* symlink resolving to the location of the dependency, and nothing else.
C1_ExactSet ==
  \A c \in CallIds :
    Reconciled(c) =>
      LET nm == calls[c].nmPath
          deps == calls[c].deps
          declared == DeclaredNames(deps)
          present == {n \in DOMAIN Below(fs, nm) : ~StartsWithDot(n[1])}
      IN /\ present = declared \cup {<<n[1]>> : n \in {d \in declared : Len(d) = 2}}
         /\ \A k \in 1..Len(deps) :
              LET q == join(nm, stringifyIdent(deps[k].ident))
              IN IsLink(fs, q) /\ Resolves(fs, q) = locations[ResolvedTarget(deps[k].locator)]

\* C3: when attachInternalDependencies has returned successfully and is run
\* again for the same dependent with the same dependencies and the same
\* locations, the second run creates no symlink, removes nothing, does not
\* fail and leaves the directory as it found it.
C3_SecondRunIdle ==
  calls[2].pc \in {"list", "deps", "cleanup", "done", "failed"} =>
    /\ calls[2].locator = calls[1].locator /\ calls[2].deps = calls[1].deps
    /\ calls[2].pc # "failed"
    /\ calls[2].removed = {} /\ calls[2].linked = {}
    /\ calls[2].skipped \/ Below(fs, calls[2].nmPath) = Below(fs, calls[1].nmPath)
    /\ calls[2].skipped \/ calls[2].before = Below(fs, calls[2].nmPath)
    /\ calls[2].pc \in {"cleanup", "done"} => DOMAIN calls[2].extraneous = {}

\* both runs have returned, the first having linked and removed entries for
\* a list of two dependencies or more
C3_Witness ==
  /\ Reconciled(1) /\ Reconciled(2)
  /\ calls[1].linked # {} /\ calls[1].removed # {}
  /\ Len(calls[2].deps) >= 2

C7_ScopedEntries ==
  \A c \in CallIds :
    Reconciled(c) =>
      LET nm == calls[c].nmPath
          deps == calls[c].deps
          before == calls[c].before
      IN /\ \A k \in 1..Len(deps) :
              LET n == stringifyIdent(deps[k].ident)
                  q == join(nm, n)
                  to == locations[ResolvedTarget(deps[k].locator)]
              IN Len(n) = 2 =>
                   /\ IsDir(fs, join(nm, <<n[1]>>))
                   /\ IsLink(fs, q) /\ Resolves(fs, q) = to
                   /\ (n \in DOMAIN before /\ before[n].kind = "link"
                         /\ Normalize(dirname(q), before[n].data) = to)
                        => (q \notin calls[c].removed \cup calls[c].linked
                              /\ fs[q] = before[n])
         /\ \A n \in DOMAIN before :
              (Len(n) = 2 /\ StartsWithAt(n[1]) /\ n \notin DeclaredNames(deps))
                => ~Exists(fs, join(nm, n))

\* a call has returned for a scope that held a declared child, left
\* untouched, and an undeclared one, removed
C7_Witness ==
  \E c \in CallIds :
    /\ Reconciled(c)
    /\ \E n, m \in DOMAIN calls[c].before :
         /\ Len(n) = 2 /\ Len(m) = 2 /\ n # m
         /\ n \in DeclaredNames(calls[c].deps)
         /\ join(calls[c].nmPath, n) \notin calls[c].removed \cup calls[c].linked
         /\ m \notin DeclaredNames(calls[c].deps)
         /\ join(calls[c].nmPath, m) \in calls[c].removed

\* C8: the content of a file that is in a store slot never changes, whatever
\* is installed and copied afterwards, by this installer or a later one.
C8_WriteOnce ==
  [][\A q \in DOMAIN fs :
       fs[q].kind = "file" => (q \in DOMAIN fs' /\ fs'[q] = fs[q])]_vars

\* a second task has copied other content into a populated slot
C8_Witness ==
  \E t \in 1..Len(pendingCopies) :
    LET q == join(pendingCopies[t].pkgPath, <<"package.json">>)
    IN /\ pendingCopies[t].st = "done"
       /\ Exists(fs, q)
       /\ fs[q] # FileNode(FilesOf(pendingCopies[t].content)["package.json"])

\* The step of a call that changes the disk
Writes(c) == calls'[c] # calls[c] /\ fs' # fs

\* The population tasks of the store slot a path is
TasksOf(path) == {t \in 1..Len(pendingCopies) : pendingCopies[t].pkgPath = path}

\* The symlinks a step creates or changes
NewLinks == {q \in DOMAIN fs' : fs'[q].kind = "link" /\ (q \notin DOMAIN fs \/ fs[q] # fs'[q])}

\* C2 as stated: whatever the order of the installPackage and
\* attachInternalDependencies calls, no symlink is created to a store slot
\* that has a population task not yet completed, and no call writes to a
\* dependency directory while a scheduled population task is not completed.
C2_PopulationBeforeLink ==
  [][\A c \in CallIds :
       Writes(c) =>
         /\ \A t \in 1..Len(pendingCopies) : pendingCopies[t].st = "done"
         /\ \A q \in NewLinks : \A t \in TasksOf(Resolves(fs', q)) :
              pendingCopies[t].st = "done"]_vars

\* C2, amended: the same of the population tasks that were scheduled before
\* the call of attachInternalDependencies was made.
C2_AwaitedBeforeLink ==
  [][\A c \in CallIds :
       Writes(c) =>
         /\ \A t \in 1..calls[c].waitFor : pendingCopies[t].st = "done"
         /\ \A q \in NewLinks : \A t \in TasksOf(Resolves(fs', q)) :
              t <= calls[c].waitFor => pendingCopies[t].st = "done"]_vars

\* a link to a populated store slot has been created by a call that had
\* tasks to await
C2_Witness ==
  \E c \in CallIds :
    /\ calls[c].waitFor >= 1
    /\ \E q \in calls[c].linked :
         /\ IsLink(fs, q)
         /\ \E t \in TasksOf(Resolves(fs, q)) :
              t <= calls[c].waitFor /\ pendingCopies[t].st = "done"

\* The dependencies of a call that its loop has been through
Processed(c) ==
  IF calls[c].pc \in {"deps", "cleanup", "done"} /\ ~calls[c].skipped
  THEN {k \in 1..Len(calls[c].deps) : k < calls[c].i}
  ELSE {}

\* The link of a processed dependency leads to the location of target(locator)
LinksLeadTo(target(_)) ==
  \A c \in CallIds : \A k \in Processed(c) :
    LET q == join(calls[c].nmPath, stringifyIdent(calls[c].deps[k].ident))
    IN IsLink(fs, q) /\ Resolves(fs, q) = locations[target(calls[c].deps[k].locator)]

\* The target of a dependency as the claim has it
ClaimedTarget(l) ==
  IF isVirtualLocator(l) /\ ~tryWorkspaceByLocator(l) THEN devirtualizeLocator(l) ELSE l

\* C5 as stated: the link of a virtual dependency that is no workspace
\* leads to the location of its devirtualized locator, the link of a virtual
\* dependency that is a workspace to the location registered for the virtual
\* locator itself, the link of any other to its own location.
C5_ClaimedLinkTarget == LinksLeadTo(ClaimedTarget)

\* C5, amended: the link of a virtual dependency that is a workspace leads
\* to the location of its devirtualized locator, the link of a virtual
\* dependency that is no workspace to the location registered for the
\* virtual locator itself, the link of any other to its own location.
C5_LinkTarget == LinksLeadTo(ResolvedTarget)

\* a call has returned after creating the link of a virtual dependency
C5_Witness ==
  \E c \in CallIds :
    /\ Reconciled(c)
    /\ \E k \in Processed(c) :
         /\ isVirtualLocator(calls[c].deps[k].locator)
         /\ join(calls[c].nmPath, stringifyIdent(calls[c].deps[k].ident)) \in calls[c].linked

\* A call has left the barrier without being rejected by it
PastBarrier(c) ==
  \/ calls[c].pc \in {"list", "deps", "cleanup", "done"}
  \/ calls[c].pc = "failed" /\ calls[c].ops.lookup > 0

\* A call has done nothing: no lookup, no filesystem operation
Untouched(c) ==
  /\ calls[c].ops = NoOps
  /\ calls[c].removed = {} /\ calls[c].linked = {}
  /\ calls[c].nmPath = <<>>

\* Past the barrier, a call is skipped exactly when its dependent is one of
\* skip, and a skipped call has returned without doing anything
SkipsExactly(skip(_)) ==
  \A c \in CallIds :
    /\ PastBarrier(c) => (calls[c].skipped <=> skip(calls[c].locator))
    /\ calls[c].skipped => (calls[c].pc = "done" /\ Untouched(c))

ClaimedSkip(l) == isVirtualLocator(l) /\ ~tryWorkspaceByLocator(l)
SourceSkip(l) == isVirtualLocator(l) /\ tryWorkspaceByLocator(l)

\* C6 as stated: reconciliation is skipped, with no lookup and no
\* filesystem operation, exactly when the dependent is a virtual locator
\* that is no workspace.
C6_ClaimedSkip == SkipsExactly(ClaimedSkip)

\* C6, amended: reconciliation is skipped, with no lookup and no filesystem
\* operation, exactly when the dependent is a virtual locator that is a
\* workspace; for every other dependent it is carried out.
C6_Skip == SkipsExactly(SourceSkip)

\* a call for a registered dependent has been skipped
C6_Witness ==
  /\ calls[1].skipped
  /\ calls[1].pc = "done"
  /\ locations[calls[1].locator] # NULL

\* C9, the state part: a call that has returned successfully without being
\* skipped has its dependent and the target of each dependency registered;
\* a call that failed on its dependent's lookup has touched no directory.
C9_NeverSucceeds ==
  \A c \in CallIds :
    /\ Reconciled(c) =>
         /\ locations[calls[c].locator] # NULL
         /\ \A k \in 1..Len(calls[c].deps) :
              locations[ResolvedTarget(calls[c].deps[k].locator)] # NULL
    /\ (calls[c].pc = "failed" /\ calls[c].error = "assert" /\ calls[c].i = 0) =>
         (calls[c].removed = {} /\ calls[c].linked = {} /\ calls[c].nmPath = <<>>
            /\ calls[c].ops.mkdirp = 0 /\ calls[c].ops.readdir = 0)

\* C9, the step part: the step that looks up a location that is not
\* registered fails the call with the assertion error and writes nothing.
C9_LookupFails ==
  \A c \in CallIds :
    LET call == calls[c]
        missing ==
          \/ /\ call.pc = "barrier" /\ calls'[c].pc # "barrier"
             /\ BarrierOutcome(call) = "resolved"
             /\ ~SourceSkip(call.locator)
             /\ locations[call.locator] = NULL
          \/ /\ call.pc = "deps" /\ calls'[c] # call
             /\ locations[ResolvedTarget(call.deps[call.i].locator)] = NULL
    IN missing => (calls'[c].pc = "failed" /\ calls'[c].error = "assert" /\ fs' = fs)

C10_CallsFail ==
  \A c \in CallIds :
    calls[c].failedBefore =>
      /\ calls[c].pc \in {"barrier", "failed"}
      /\ calls[c].pc = "failed" => calls[c].error = "fs"
      /\ Untouched(c)

\* C10, the step part: what a task has copied into a store slot stays.
C10_SlotsKept ==
  \A q \in DOMAIN fs : fs[q].kind = "file" => (q \in DOMAIN fs' /\ fs'[q] = fs[q])

\* C10: once a population task has failed, every call of
\* attachInternalDependencies made afterwards fails with that error before
\* it reads or changes a dependency directory, and the slots that other
\* tasks have populated stay as they are.
C10_FailFast == []C10_CallsFail /\ [][C10_SlotsKept]_vars

\* a call made after a task had failed has failed, with a slot populated by
\* another task on disk
C10_Witness ==
  \E c \in CallIds :
    /\ calls[c].failedBefore /\ calls[c].pc = "failed"
    /\ \E t \in 1..Len(pendingCopies) :
         /\ pendingCopies[t].st = "done"
         /\ Exists(fs, join(pendingCopies[t].pkgPath, <<"package.json">>))

\* The install run has gone through: every package installed, every
\* population task done, the dependent reconciled
RunComplete ==
  /\ \A pkg \in RetryPackages : locations[pkg] # NULL
  /\ \A t \in 1..Len(pendingCopies) : pendingCopies[t].st = "done"
  /\ calls[1].pc = "done"

\* The disk an uninterrupted install of the project produces: the store slot
\* of h populated, and the two links in the workspace's node_modules
RetryExpected ==
  LET nm == join(cwd, <<NodeModules>>)
      store == Populated(EmptyDisk, 1)
      a == join(nm, <<"a">>)
      b == join(nm, <<"@s", "b">>)
  IN Symlink(Symlink(Mkdirp(store, dirname(b)),
                     relative(dirname(a), StorePath("h")), a),
             relative(dirname(b), cwd), b)

\* C11: whenever an install run goes through, the first over the disk as
\* it was or a later one over what aborted runs have left, the store and
\* the dependency directory are as an uninterrupted install leaves them.
C11_RetrySafe == RunComplete => fs = RetryExpected

\* C11 for the first run alone, which nothing has interrupted
C11_Uninterrupted == (run = 1 /\ RunComplete) => fs = RetryExpected

\* Two entries of the table of locations are the same: both absent, or the
\* same path
SameEntry(a, b) == IF a = NULL THEN b = NULL ELSE (b # NULL /\ a = b)

\* The step is the return of an installPackage call
IsInstallStep ==
  /\ ncalls' = ncalls + 1
  /\ calls' = calls
  /\ result'.op = "installPackage"

IsCallOf(op) ==
  /\ ncalls' = ncalls + 1
  /\ calls' = calls
  /\ result'.op = op

\* C13, the state part: what attachExternalDependents has returned is the
\* error that says it is not implemented.
C13_Throws ==
  result.op = "attachExternalDependents" =>
    (result.kind = "error" /\ result.message = NotImplemented)

\* C13, the step part: a call of attachExternalDependents changes neither
\* the table of locations nor the population tasks nor the disk.
C13_Frame ==
  IsCallOf("attachExternalDependents") =>
    /\ \A l \in Locators : SameEntry(locations[l], locations'[l])
    /\ pendingCopies' = pendingCopies
    /\ fs' = fs

\* C13: attachExternalDependents fails with the error that says it is not
\* implemented, whatever its arguments and the state of the installer, and
\* leaves the table of locations, the population tasks and the disk alone.
C13_Unimplemented == []C13_Throws /\ [][C13_Frame]_vars

\* attachExternalDependents has been called while a package was registered
\* and its population task under way
C13_Witness ==
  /\ result.op = "attachExternalDependents"
  /\ \E t \in 1..Len(pendingCopies) : pendingCopies[t].st = "mkdir"
  /\ \E l \in Locators : locations[l] # NULL

\* C14, the state part: in every state the two reverse lookups answer null
\* for every locator and every path, registered or not, and null is what a
\* call of them has returned.
C14_Null ==
  /\ \A l \in Locators : findPackageLocation(l).kind = "null"
  /\ \A p \in Locations : findPackageLocator(p).kind = "null"
  /\ result.op \in {"findPackageLocation", "findPackageLocator"} => result.kind = "null"

\* C14, the step part: a call of either changes nothing but the value
\* returned.
C14_Frame ==
  (IsCallOf("findPackageLocation") \/ IsCallOf("findPackageLocator")) =>
    /\ \A l \in Locators : SameEntry(locations[l], locations'[l])
    /\ pendingCopies' = pendingCopies
    /\ fs' = fs

\* C14: findPackageLocation and findPackageLocator report nothing found for
\* every input in every state, also for a locator that has a location and
\* for a path that is a registered location, and change no state.
C14_NotFound == []C14_Null /\ [][C14_Frame]_vars

\* a reverse lookup has been called after a HARD package was registered and
\* populated (its location is among the paths asked about)
C14_Witness ==
  /\ result.op \in {"findPackageLocation", "findPackageLocator"}
  /\ \E l \in Locators :
       /\ locations[l] # NULL
       /\ locations[l] \in Locations
       /\ \E t \in TasksOf(locations[l]) : pendingCopies[t].st = "done"

\* The relative target line 128 computes for the k-th dependency of a call
DesiredLink(c, k) ==
  LET q == join(calls[c].nmPath, stringifyIdent(calls[c].deps[k].ident))
  IN relative(dirname(q), locations[ResolvedTarget(calls[c].deps[k].locator)])

\* The entry n that a call found is a symlink that holds the target desired
\* for a declared dependency of that name
HeldDesired(c, n) ==
  \E k \in 1..Len(calls[c].deps) :
    /\ stringifyIdent(calls[c].deps[k].ident) = n
    /\ locations[ResolvedTarget(calls[c].deps[k].locator)] # NULL
    /\ calls[c].before[n] = LinkNode(DesiredLink(c, k))

\* The paths a call has removed or created
Touched(c) == calls[c].removed \cup calls[c].linked

\* C15: at every point of a call, an entry that was in the directory when
\* the call began has been removed or created again only if it is not a
\* declared name or did not hold the desired target; an entry that was a
\* symlink holding the desired target has not been touched and is as it was,
\* whatever has been done to the other entries.
C15_MinimalEdit ==
  \A c \in CallIds :
    calls[c].nmPath # <<>> =>
      \A n \in DOMAIN calls[c].before :
        LET q == join(calls[c].nmPath, n)
        IN /\ q \in Touched(c) =>
                (n \notin DeclaredNames(calls[c].deps) \/ ~HeldDesired(c, n))
           /\ HeldDesired(c, n) =>
                (q \notin Touched(c) /\ Exists(fs, q) /\ fs[q] = calls[c].before[n])

\* a call has returned that left one entry holding the desired target
\* untouched, replaced another declared entry and removed an undeclared one
C15_Witness ==
  \E c \in CallIds :
    /\ Reconciled(c)
    /\ \E n \in DOMAIN calls[c].before : HeldDesired(c, n)
    /\ \E n \in DOMAIN calls[c].before :
         join(calls[c].nmPath, n) \in calls[c].removed \cap calls[c].linked
    /\ \E n \in DOMAIN calls[c].before :
         /\ n \notin DeclaredNames(calls[c].deps)
         /\ join(calls[c].nmPath, n) \in calls[c].removed

\* The entries of a dependency directory, as the idents name them
EntriesIn(f, nm) == {n \in DOMAIN Below(f, nm) : IsEntryName(n)}

\* The dependency directory of the dependent of a call
DirOf(c) == join(locations[calls[c].locator], <<NodeModules>>)

\* The directory of a call's dependent is as the call alone leaves it: one
\* link per declared ident, to the desired target, and no other entry
AsAlone(c) ==
  /\ EntriesIn(fs, DirOf(c)) = DeclaredNames(calls[c].deps)
  /\ \A k \in 1..Len(calls[c].deps) :
       LET q == join(DirOf(c), stringifyIdent(calls[c].deps[k].ident))
       IN IsLink(fs, q) /\ fs[q].data = DesiredLink(c, k)

\* The paths a step changes, creates or removes
Changed ==
  {q \in DOMAIN fs \cup DOMAIN fs' :
     q \notin DOMAIN fs \/ q \notin DOMAIN fs' \/ fs[q] # fs'[q]}

\* A path is an entry, or below an entry, of a dependency directory
InDir(q, nm) ==
  /\ IsPrefix(nm, q) /\ Len(q) > Len(nm)
  /\ ~StartsWithDot(q[Len(nm) + 1])

\* Both calls have been made and have ended
BothEnded == \A c \in CallIds : calls[c].pc \in {"done", "failed"}

\* C16, the state part: when the two calls have ended, however their steps
\* were interleaved, neither has failed and the directory of each dependent
\* is as its call leaves it when the calls run one after the other.
C16_SameAsSequential ==
  BothEnded => \A c \in CallIds : calls[c].pc = "done" /\ AsAlone(c)

\* C16, the step part: a step of one call changes nothing in the dependency
\* directory of the dependent of the other call.
C16_OwnDirectory ==
  \A c \in CallIds :
    calls'[c] # calls[c] =>
      \A d \in CallIds \ {c} :
        calls[d].locator # NULL =>
          \A q \in Changed : ~InDir(q, DirOf(d))

\* C16: calls of attachInternalDependencies for different dependents do not
\* interfere: every interleaving of their steps ends as the calls made one
\* after the other, and no call writes the directory of another dependent.
C16_InterferenceFree == []C16_SameAsSequential /\ [][C16_OwnDirectory]_vars

\* The two dependents have their locations, and so their dependency
\* directories, apart
Apart ==
  \A c, d \in CallIds :
    (c # d /\ calls[c].locator # NULL /\ calls[d].locator # NULL)
      => locations[calls[c].locator] # locations[calls[d].locator]

\* C16, amended: calls of attachInternalDependencies for dependents that
\* are registered at different locations do not interfere: every
\* interleaving of their steps ends as the calls made one after the other,
\* and no call writes the directory of the other dependent.
C16_ApartSameAsSequential == Apart => C16_SameAsSequential
C16_ApartOwnDirectory == Apart => C16_OwnDirectory
C16_ApartInterferenceFree ==
  []C16_ApartSameAsSequential /\ [][C16_ApartOwnDirectory]_vars

\* two calls for dependents at different locations are both in their
\* cleanup, each having created a link and one having removed an entry
C16_Witness ==
  /\ Apart
  /\ \A c \in CallIds : calls[c].pc = "cleanup" /\ calls[c].linked # {}
  /\ \E c \in CallIds : calls[c].removed # {}

\* C17: when installPackage returns, the table maps the package to the
\* location returned, the value returned is {packageLocation: that location,
\* buildDirective: null}, and nothing has been written to the disk; for a
\* HARD package the location is its store slot and exactly one population
\* task has been added, for that slot, which has not started; for a SOFT
\* package no task has been added.
C17_RegistersAtOnce ==
  [][IsInstallStep =>
       /\ result'.kind = "object" /\ result'.buildDirective = "null"
       /\ fs' = fs
       /\ \E pkg \in Locators :
            /\ SameEntry(result'.packageLocation, locations'[pkg])
            /\ \A k \in Locators \ {pkg} : SameEntry(locations[k], locations'[k])
            /\ IF LinkTypeOf(pkg) = "HARD"
               THEN /\ result'.packageLocation = StorePath(pkg)
                    /\ Len(pendingCopies') = Len(pendingCopies) + 1
                    /\ SubSeq(pendingCopies', 1, Len(pendingCopies)) = pendingCopies
                    /\ pendingCopies'[Len(pendingCopies')].pkgPath = StorePath(pkg)
                    /\ pendingCopies'[Len(pendingCopies')].st = "scheduled"
               ELSE pendingCopies' = pendingCopies]_vars

\* installPackage has returned for a HARD package whose slot is not on the
\* disk, its task not begun, after a SOFT package was installed
C17_Witness ==
  /\ result.op = "installPackage"
  /\ \E pkg \in Locators :
       /\ LinkTypeOf(pkg) = "HARD"
       /\ result.packageLocation = StorePath(pkg)
       /\ locations[pkg] = StorePath(pkg)
       /\ ~Exists(fs, StorePath(pkg))
       /\ pendingCopies[Len(pendingCopies)].st = "scheduled"
  /\ \E pkg \in Locators : LinkTypeOf(pkg) = "SOFT" /\ locations[pkg] # NULL

\* A path is a dotfile entry of the directory nm, or below one
InDotEntry(q, nm) ==
  /\ IsPrefix(nm, q) /\ Len(q) > Len(nm)
  /\ q[Len(nm) + 1] \in DotNames

\* C18: no step of a call of attachInternalDependencies removes or changes
\* a dotfile entry of the dependent's directory, or anything below it: the
\* entry and what it holds are after the step as they were before.
C18_DotfilesKept ==
  [][\A c \in CallIds :
       (calls'[c] # calls[c] /\ calls[c].nmPath # <<>>) =>
         \A q \in DOMAIN fs :
           InDotEntry(q, calls[c].nmPath) => (q \in DOMAIN fs' /\ fs'[q] = fs[q])]_vars

\* a call for the root workspace has returned after removing and creating
\* entries, in a directory that held .bin beside the store
C18_Witness ==
  \E c \in CallIds :
    /\ Reconciled(c)
    /\ calls[c].nmPath = join(cwd, <<NodeModules>>)
    /\ calls[c].removed # {} /\ calls[c].linked # {}
    /\ <<".bin">> \in DOMAIN calls[c].before
    /\ Exists(fs, join(calls[c].nmPath, <<".bin">>))
    /\ Exists(fs, join(StorePath("h"), <<"package.json">>))

\* C19: the installPackage step that gives a SOFT package its location, or
\* another location, sets it to the path its fetchResult resolves to,
\* returns that path, adds no population task and writes nothing to the
\* disk, in the store or elsewhere.
C19_SoftOnlyRegisters ==
  [][\A pkg \in Locators :
       (/\ LinkTypeOf(pkg) = "SOFT"
        /\ run' = run
        /\ ~SameEntry(locations[pkg], locations'[pkg])) =>
         /\ IsInstallStep
         /\ \E fetchResult \in FetchResults(pkg) :
              SameEntry(resolve(RealPath, fetchResult.prefixPath), locations'[pkg])
         /\ SameEntry(result'.packageLocation, locations'[pkg])
         /\ pendingCopies' = pendingCopies
         /\ fs' = fs]_vars

\* a SOFT package has been installed at a directory below the project's,
\* while the task of a HARD package was under way
C19_Witness ==
  /\ result.op = "installPackage"
  /\ \E pkg \in Locators :
       /\ LinkTypeOf(pkg) = "SOFT"
       /\ SameEntry(<<"p", "pk">>, locations[pkg])
       /\ SameEntry(result.packageLocation, locations[pkg])
  /\ \E t \in 1..Len(pendingCopies) : pendingCopies[t].st = "mkdir"

====
